---- MODULE Spec2Model ----
\* gdb_chibios: ChibiOS thread awareness for gdb on Cortex-M (chibios.py) and
\* the ELF core writer (corefile.py).  The debugger-side state of chibios.py
\* (reg_cache, thread_cache, currp, ChibiThread.next_lwp) is modelled together
\* with the part of the target it reads and writes: the register file as gdb
\* names it ($r0..$r15, $xpsr, $msp, $psp) and the kernel's thread records.
EXTENDS Integers, Sequences, FiniteSets, TLC

\* ---------------------------------------------------------------- bounds

\* stop events explored in one behaviour
MaxStops == 2
\* events of the target explored in one behaviour besides its halts: a
\* change of its memory while it runs, or a register write it rejects
MaxEvents == 1

\* segments a container holds at most
MaxSegs == 2

\* longest name and longest descriptor of a note, in bytes
MaxName == 5
MaxDesc == 5

\* ------------------------------------------------------------- constants

None == "None"

\* index of xpsr in a register list (regs[16])
XPSR == 16
\* size of the extended exception frame popped by the unwind (0x68)
ExtFrame == 104
ISR == "_port_switch_from_isr"

\* size of the saved context r13 points to: the fields r4..r11 and lr that
\* _update reads through it, one 4-byte word each; (r13+1) is gdb pointer
\* arithmetic on a pointer to that structure
CtxSize == 9 * 4

\* distance between the stacks of two thread records in target memory
StackSpan == 4096 * 1

\* thread records of the target (addresses of Thread structures)
Rec == {1, 2, 3}

\* ------------------------------------------------- debug information (gdb)

\* lexical blocks of the firmware's debug information: gdb.Block.function
\* and gdb.Block.superblock
Blocks ==
  [ inner   |-> [function |-> None,   superblock |-> "main"],
    main    |-> [function |-> "main", superblock |-> "static"],
    isr     |-> [function |-> ISR,    superblock |-> "static"],
    static  |-> [function |-> None,   superblock |-> "global"],
    global  |-> [function |-> None,   superblock |-> None] ]

\* gdb.block_for_pc: the innermost block of a program counter, or None
PcBlock == (256 :> "inner") @@ (260 :> "main") @@ (512 :> "isr")
           @@ (768 :> "static") @@ (1024 :> None)

PCs == DOMAIN PcBlock

block_for_pc(pc) == IF pc \in PCs THEN PcBlock[pc] ELSE None

\* the loop of _update_frame: walk outward to the first block with a function.
\* A block that is None has no attribute 'function': the access raises.
RECURSIVE WalkBlocks(_)
WalkBlocks(b) ==
  IF b = None THEN [ok |-> FALSE, function |-> None]
  ELSE IF Blocks[b].function # None
       THEN [ok |-> TRUE, function |-> Blocks[b].function]
       ELSE WalkBlocks(Blocks[b].superblock)

\* ------------------------------------------------------------- registers

RegIdx == 0..18

MSP == XPSR + 1
PSP == XPSR + 2

\* xpsr values of the target: thread mode (exception number 0) and handler
\* mode (exception number 15); regs[16] & 0xff is the exception number
Xpsr == [thread |-> 16777216, handler |-> 16777231]

\* get_cpu_regs: r0..r15 and xpsr of the newest frame; slots 17, 18 stay 0
get_cpu_regs(c) ==
  [i \in RegIdx |-> IF i < XPSR THEN c.r[i] ELSE IF i = XPSR THEN c.xpsr ELSE 0]

\* Faults of one set_cpu_regs call: 0 is none, k > 0 means that the k-th
\* register write of the call (r0..r15 are writes 1..16, xpsr is 17, the
\* stack-pointer alias is 18) is rejected by the target.
Faults == {0, 9, XPSR + 1, XPSR + 2}

\* "set $msp = %d" when regs[16] & 0xff is non-zero, else "set $psp = %d"
SpAlias(regs) == IF regs[XPSR] % 256 # 0 THEN MSP ELSE PSP

\* (mutant of set_cpu_regs: a rejected write of xpsr ends the call)
set_cpu_regs_xpsr_aborts(c, regs, fault) ==
  LET n   == IF fault \in 1..XPSR THEN fault - 1 ELSE XPSR
      c1  == [c EXCEPT !.r = [i \in 0..15 |-> IF i < n THEN regs[i] ELSE c.r[i]]]
      l1  == [k \in 1..n |-> <<k - 1, TRUE>>]
      c2  == [c1 EXCEPT !.xpsr = regs[XPSR]]
      l2  == Append(l1, <<XPSR, TRUE>>)
      sok == fault # XPSR + 2
      c3  == IF ~sok THEN c2
             ELSE IF SpAlias(regs) = MSP THEN [c2 EXCEPT !.msp = regs[13]]
             ELSE [c2 EXCEPT !.psp = regs[13]]
      l3  == Append(l2, <<SpAlias(regs), sok>>)
  IN IF fault \in 1..XPSR
     THEN [cpu |-> c1, ok |-> FALSE, log |-> Append(l1, <<n, FALSE>>)]
     ELSE IF fault = XPSR + 1
     THEN [cpu |-> c1, ok |-> FALSE, log |-> Append(l1, <<XPSR, FALSE>>)]
     ELSE [cpu |-> c3, ok |-> sok, log |-> l3]

\* set_cpu_regs: the writes in program order.  A rejected write of r0..r15
\* or of the alias raises; a rejected write of xpsr is caught and printed.
\* Result: the register file, whether the call returned, the writes
\* attempted (register, accepted).
set_cpu_regs(c, regs, fault) ==
  LET n   == IF fault \in 1..XPSR THEN fault - 1 ELSE XPSR
      c1  == [c EXCEPT !.r = [i \in 0..15 |-> IF i < n THEN regs[i] ELSE c.r[i]]]
      l1  == [k \in 1..n |-> <<k - 1, TRUE>>]
      xok == fault # XPSR + 1
      c2  == IF xok THEN [c1 EXCEPT !.xpsr = regs[XPSR]] ELSE c1
      l2  == Append(l1, <<XPSR, xok>>)
      sok == fault # XPSR + 2
      c3  == IF ~sok THEN c2
             ELSE IF SpAlias(regs) = MSP THEN [c2 EXCEPT !.msp = regs[13]]
             ELSE [c2 EXCEPT !.psp = regs[13]]
      l3  == Append(l2, <<SpAlias(regs), sok>>)
  IN IF fault \in 1..XPSR
     THEN [cpu |-> c1, ok |-> FALSE, log |-> Append(l1, <<n, FALSE>>)]
     ELSE [cpu |-> c3, ok |-> sok, log |-> l3]

\* ---------------------------------------------------------- target memory

\* The memory of the target as the handlers read it:
\*   currp    the value of the expression 'currp', <<record>>
\*   r_newer  rlist.r_newer, the first record of the registry
\*   p_newer  the p_newer link of each record
\*   r13      the saved stack pointer p_ctx.r13 of each record
\*   lr       the lr field of the saved context in each stack region
\*   fxpsr    the 8th word of the frame above the saved context
\*   bad      what cannot be read in each stack region: "none", the saved
\*            context ("ctx"), or the frame above it ("frame")
\* Stack region a holds the addresses a*StackSpan .. (a+1)*StackSpan-1; a
\* record's saved stack pointer is 0 or the base of its own region.
Region(addr) == addr \div StackSpan

StackOf(a) == a * StackSpan

\* region 0 (the memory a zero saved stack pointer points to) is readable
\* and holds a fixed image
CtxReadable(m, sp) == Region(sp) = 0 \/ m.bad[Region(sp)] # "ctx"

\* r13['lr']
SavedLr(m, sp) == IF Region(sp) = 0 THEN 260 ELSE m.lr[Region(sp)]

\* r13['r%d' % i], i in 4..11
SavedReg(m, sp, i) == 64 * Region(sp) + i

FrameReadable(m, addr) == Region(addr) = 0 \/ m.bad[Region(addr)] # "frame"

\* read_memory(addr, 32) unpacked as "<8L": r0, r1, r2, r3, r12, lr, pc, xpsr
ReadFrame(m, addr) ==
  [k \in 0..7 |->
     IF k < 6 THEN 8192 * (Region(addr) + 1) + k
     ELSE IF k = 6 THEN 260
     ELSE IF Region(addr) = 0 THEN Xpsr.thread ELSE m.fxpsr[Region(addr)]]

\* --------------------------------------------------------- ChibiThread

\* _update_frame: frame_str is (pc, function); <<>> while never resolved
update_frame(t) ==
  LET w == WalkBlocks(block_for_pc(t.regs[15]))
  IN [ok |-> w.ok,
      function |-> w.function,
      t  |-> IF w.ok THEN [t EXCEPT !.frame_str = <<t.regs[15], w.function>>]
             ELSE t]

\* lines 52-63: the exception frame at t.regs[13] is popped into the
\* registers and the stack pointer moves up by size
pop_frame(t, m, size) ==
  IF ~FrameReadable(m, t.regs[13]) THEN [ok |-> FALSE, t |-> t]
  ELSE LET stack == ReadFrame(m, t.regs[13])
           t1 == [t EXCEPT !.regs =
                    [i \in RegIdx |->
                       IF i < 4 THEN stack[i]
                       ELSE IF i = 12 THEN stack[4]
                       ELSE IF i = 13 THEN t.regs[13] + size
                       ELSE IF i = 14 THEN stack[5]
                       ELSE IF i = 15 THEN stack[6]
                       ELSE IF i = XPSR THEN stack[7]
                       ELSE t.regs[i]]]
           f  == update_frame(t1)
       IN [ok |-> f.ok, t |-> f.t]

\* (mutant of unwind: the size of a standard frame, 8 words)
unwind_standard_frame(t, m) == pop_frame(t, m, 32)

\* the unwind out of _port_switch_from_isr (lines 50-63), t.regs[13] being
\* the reconstructed stack pointer: the extended frame size, unconditionally
unwind(t, m) == pop_frame(t, m, ExtFrame)

\* (mutant of saved_context: the stack pointer moves up by one word)
saved_context_one_word(t, m, sp) ==
  [t EXCEPT !.regs =
     [i \in RegIdx |->
        IF i = 13 THEN sp + 4
        ELSE IF i = 15 THEN SavedLr(m, sp)
        ELSE IF i \in 4..11 THEN SavedReg(m, sp, i)
        ELSE t.regs[i]]]

\* the saved context of an inactive thread (lines 40-46); sp is p_ctx.r13
saved_context(t, m, sp) ==
  [t EXCEPT !.regs =
     [i \in RegIdx |->
        IF i = 13 THEN sp + CtxSize
        ELSE IF i = 15 THEN SavedLr(m, sp)
        ELSE IF i \in 4..11 THEN SavedReg(m, sp, i)
        ELSE t.regs[i]]]

\* (mutant of update_active: the registers are not copied from reg_cache)
update_active_stale(t0, rc) ==
  LET f == update_frame([t0 EXCEPT !.active = TRUE])
  IN [ok |-> f.ok, t |-> f.t]

\* lines 34-38: the thread is the one currp points to
update_active(t0, rc) ==
  LET f == update_frame([t0 EXCEPT !.regs = rc, !.active = TRUE])
  IN [ok |-> f.ok, t |-> f.t]

\* lines 34, 40-63: any other thread
update_inactive(t0, rc, m) ==
  LET t2 == [t0 EXCEPT !.regs = rc, !.active = FALSE]
      sp == m.r13[t0.tp]
  IN IF ~CtxReadable(m, sp)
     THEN [ok |-> FALSE, t |-> [t2 EXCEPT !.regs[13] = sp + CtxSize]]
     ELSE LET f == update_frame(saved_context(t2, m, sp))
          IN IF ~f.ok THEN [ok |-> FALSE, t |-> f.t]
             ELSE IF f.function # ISR THEN [ok |-> TRUE, t |-> f.t]
             ELSE unwind(f.t, m)

\* ChibiThread._update with reg_cache rc and currp cp.  Result: the thread
\* object as the call leaves it and whether the call returned (ok) or raised.
update(t0, rc, cp, m) ==
  IF <<t0.tp>> = cp THEN update_active(t0, rc) ELSE update_inactive(t0, rc, m)

\* ChibiThread(tp): the label is taken from next_lwp, then _update runs
new_thread(tp, lwp, rc, cp, m) ==
  update([tp |-> tp, lwp |-> lwp, active |-> FALSE, regs |-> rc,
          frame_str |-> <<>>], rc, cp, m)

\* --------------------------------------------------------- stop_handler

Last(q) == q[Len(q)]

\* lines 113-118: follow p_newer from rlist.r_newer until the link returns
\* to the first record or reaches a record whose saved stack pointer is 0.
\* A list longer than the number of records repeats one: the loop of the
\* source then never ends (ok = FALSE).
RECURSIVE walk_registry(_, _)
walk_registry(m, list) ==
  LET tp == m.p_newer[Last(list)]
  IN IF tp = list[1] \/ m.r13[tp] = 0 THEN [ok |-> TRUE, list |-> list]
     ELSE IF Len(list) > Cardinality(Rec) THEN [ok |-> FALSE, list |-> list]
     ELSE walk_registry(m, Append(list, tp))

\* lines 120-121: t._update() for the threads tc[i..], in order, up to the
\* first call that raises
RECURSIVE update_all(_, _, _, _, _)
update_all(tc, i, rc, cp, m) ==
  IF i > Len(tc) THEN [ok |-> TRUE, tc |-> tc]
  ELSE LET u == update(tc[i], rc, cp, m)
       IN IF u.ok THEN update_all([tc EXCEPT ![i] = u.t], i + 1, rc, cp, m)
          ELSE [ok |-> FALSE, tc |-> [tc EXCEPT ![i] = u.t]]

\* (mutant of add_new: every record of the list is taken as new)
RECURSIVE add_new_ignores_old(_, _, _, _, _, _, _)
add_new_ignores_old(list, i, old, st, rc, cp, m) ==
  IF i > Len(list) THEN [ok |-> TRUE, tc |-> st.tc, lwp |-> st.lwp, log |-> st.log]
  ELSE LET ct == new_thread(list[i], st.lwp, rc, cp, m)
       IN IF ct.ok
          THEN add_new_ignores_old(list, i + 1, old,
                       [tc  |-> Append(st.tc, ct.t), lwp |-> st.lwp + 1,
                        log |-> Append(st.log, <<list[i], st.lwp, TRUE>>)],
                       rc, cp, m)
          ELSE [ok |-> FALSE, tc |-> st.tc, lwp |-> st.lwp + 1,
                log |-> Append(st.log, <<list[i], st.lwp, FALSE>>)]

\* lines 123-128: the records of list[i..] that are not in old each get a
\* ChibiThread, are appended and announced.  st carries thread_cache (tc),
\* next_lwp (lwp) and the labels handed out (log: record, label, announced).
RECURSIVE add_new(_, _, _, _, _, _, _)
add_new(list, i, old, st, rc, cp, m) ==
  IF i > Len(list) THEN [ok |-> TRUE, tc |-> st.tc, lwp |-> st.lwp, log |-> st.log]
  ELSE IF list[i] \in old THEN add_new(list, i + 1, old, st, rc, cp, m)
  ELSE LET ct == new_thread(list[i], st.lwp, rc, cp, m)
       IN IF ct.ok
          THEN add_new(list, i + 1, old,
                       [tc  |-> Append(st.tc, ct.t), lwp |-> st.lwp + 1,
                        log |-> Append(st.log, <<list[i], st.lwp, TRUE>>)],
                       rc, cp, m)
          ELSE [ok |-> FALSE, tc |-> st.tc, lwp |-> st.lwp + 1,
                log |-> Append(st.log, <<list[i], st.lwp, FALSE>>)]

\* stop_handler (lines 95-129) on thread_cache tc and next_lwp lwp, with the
\* register file c and the memory m of the stopped target.  Result: the
\* module state it leaves, the register file, how it ended ("return",
\* "raise", or "loop" when the registry walk never ends), the labels handed
\* out and the register writes.  evaluable: gdb can evaluate 'currp' where
\* the target halted (line 106); if not, the except branch runs.
stop_handler(tc, lwp, c, m, evaluable, fault) ==
  LET rc == get_cpu_regs(c)
      base == [reg_cache |-> rc, currp |-> IF evaluable THEN m.currp ELSE <<>>,
               thread_cache |-> tc,
               next_lwp |-> lwp, cpu |-> c, end |-> "raise",
               log |-> <<>>, writes |-> <<>>, walk |-> <<>>]
  IN IF ~evaluable
     THEN [base EXCEPT !.thread_cache = <<>>, !.end = "return"]
     ELSE LET w == walk_registry(m, <<m.r_newer>>)
          IN IF ~w.ok THEN [base EXCEPT !.end = "loop"]
             ELSE LET u == update_all(tc, 1, rc, m.currp, m)
                  IN IF ~u.ok THEN [base EXCEPT !.thread_cache = u.tc,
                                                !.walk = w.list]
                     ELSE LET old == {u.tc[k].tp : k \in 1..Len(u.tc)}
                              a == add_new(w.list, 1, old,
                                           [tc |-> u.tc, lwp |-> lwp, log |-> <<>>],
                                           rc, m.currp, m)
                              s == set_cpu_regs(c, rc, fault)
                              b == [base EXCEPT !.thread_cache = a.tc,
                                                !.next_lwp = a.lwp,
                                                !.log = a.log,
                                                !.walk = w.list]
                          IN IF ~a.ok THEN b
                             ELSE [b EXCEPT !.cpu = s.cpu, !.writes = s.log,
                                     !.end = IF s.ok THEN "return" ELSE "raise"]

\* ------------------------------------------------------------------ state

\* ---------------------------------------------------------------------------
\* corefile.py: the ELF32 container.  A file image is a sequence of bytes.

ET_CORE == 4
PT_LOAD == 1
PT_NOTE == 4

\* struct.calcsize of one format code
CodeSize == [s16 |-> 16, H |-> 2, L |-> 4, Q |-> 8]

Elf32_Ehdr_fields ==
  <<"e_ident", "e_type", "e_machine", "e_version", "e_entry", "e_phoff",
    "e_shoff", "e_flags", "e_ehsize", "e_phentsize", "e_phnum",
    "e_shentsize", "e_shnum", "e_shstrndx">>
Elf32_Ehdr_fmt ==
  <<"s16", "H", "H", "L", "L", "L", "L", "L", "H", "H", "H", "H", "H", "H">>

Elf32_Phdr_fields ==
  <<"p_type", "p_offset", "p_vaddr", "p_paddr", "p_filesz", "p_memsz",
    "p_flags", "p_align">>
Elf32_Phdr_fmt == <<"L", "L", "L", "L", "L", "L", "L", "L">>

\* the fields in the order a descriptor would have with p_paddr before p_vaddr
Elf32_Phdr_fields_swapped ==
  <<"p_type", "p_offset", "p_paddr", "p_vaddr", "p_filesz", "p_memsz",
    "p_flags", "p_align">>

\* Python's buf[a:b]
Slice(buf, a, b) ==
  SubSeq(buf, a + 1, IF b < Len(buf) THEN b ELSE Len(buf))

\* little-endian packing of v into n bytes, and its inverse
RECURSIVE pack_int(_, _)
pack_int(v, n) ==
  IF n = 0 THEN <<>> ELSE <<v % 256>> \o pack_int(v \div 256, n - 1)

RECURSIVE unpack_int(_)
unpack_int(b) ==
  IF b = <<>> THEN 0 ELSE b[1] + 256 * unpack_int(Tail(b))

\* the offset of field k in a structure of format fmt
RECURSIVE offsetof(_, _)
offsetof(fmt, k) ==
  IF k = 1 THEN 0 ELSE offsetof(fmt, k - 1) + CodeSize[fmt[k - 1]]

\* Struct.sizeof (lines 22-23)
sizeof(fmt) == offsetof(fmt, Len(fmt) + 1)

\* struct.pack of the first k fields of obj
RECURSIVE pack(_, _, _, _)
pack(fields, fmt, obj, k) ==
  IF k = 0 THEN <<>>
  ELSE pack(fields, fmt, obj, k - 1) \o
       (IF fmt[k] = "s16"
        THEN [j \in 1..16 |-> IF j <= Len(obj[fields[k]])
                              THEN obj[fields[k]][j] ELSE 0]
        ELSE pack_int(obj[fields[k]], CodeSize[fmt[k]]))

\* Struct.dumps (lines 25-32)
dumps(fields, fmt, obj) == pack(fields, fmt, obj, Len(fmt))

\* Struct.__init__ with a buffer (lines 16-20); the caller has checked that
\* the buffer holds sizeof(fmt) bytes, struct.unpack raising otherwise
unpack(fields, fmt, buf) ==
  [f \in {fields[k] : k \in 1..Len(fields)} |->
     LET k == CHOOSE j \in 1..Len(fields) : fields[j] = f
         b == Slice(buf, offsetof(fmt, k), offsetof(fmt, k + 1))
     IN IF fmt[k] = "s16" THEN b ELSE unpack_int(b)]

\* Struct.__init__ without a buffer (lines 17-18): every field zero
zeroed(fields, fmt) ==
  unpack(fields, fmt, [j \in 1..sizeof(fmt) |-> 0])

\* Elf32_Ehdr() (lines 58-64)
Elf32_Ehdr ==
  [zeroed(Elf32_Ehdr_fields, Elf32_Ehdr_fmt) EXCEPT
     !.e_ident = <<127, 69, 76, 70, 1, 1, 1, 0, 0, 0, 0, 0, 0, 0, 0, 0>>,
     !.e_version = 1,
     !.e_ehsize = sizeof(Elf32_Ehdr_fmt)]

\* a program header object: its eight fields and its data attribute
Phdr(fieldvals, data) ==
  [f \in DOMAIN fieldvals \cup {"data"} |->
     IF f = "data" THEN data ELSE fieldvals[f]]

\* CoreFile() (lines 102-111 with fileobj None)
CoreFile == [ehdr |-> Elf32_Ehdr, phdr |-> <<>>]

\* CoreFile(fileobj) (lines 102-111): ok is FALSE when a header does not fit
\* in the image and struct.unpack raises
RECURSIVE read_phdrs(_, _, _)
read_phdrs(fileobj, ehdr, i) ==
  IF i = 0 THEN [ok |-> TRUE, phdr |-> <<>>]
  ELSE LET r == read_phdrs(fileobj, ehdr, i - 1)
           chunk == Slice(fileobj, ehdr.e_phoff + (i - 1) * ehdr.e_phentsize,
                                   ehdr.e_phoff + i * ehdr.e_phentsize)
       IN IF ~r.ok \/ Len(chunk) < sizeof(Elf32_Phdr_fmt)
          THEN [ok |-> FALSE, phdr |-> r.phdr]
          ELSE LET p == unpack(Elf32_Phdr_fields, Elf32_Phdr_fmt, chunk)
               IN [ok |-> TRUE,
                   phdr |-> Append(r.phdr,
                              Phdr(p, Slice(fileobj, p.p_offset,
                                            p.p_offset + p.p_filesz)))]

CoreFile_from(fileobj) ==
  IF Len(fileobj) < sizeof(Elf32_Ehdr_fmt)
  THEN [ok |-> FALSE, cf |-> CoreFile]
  ELSE LET ehdr == unpack(Elf32_Ehdr_fields, Elf32_Ehdr_fmt, fileobj)
           r == read_phdrs(fileobj, ehdr, ehdr.e_phnum)
       IN [ok |-> r.ok, cf |-> [ehdr |-> ehdr, phdr |-> r.phdr]]

\* lines 125-130: offsets and sizes of the segments, the first one at ofs
RECURSIVE layout(_, _)
layout(phdrs, ofs) ==
  IF phdrs = <<>> THEN <<>>
  ELSE LET p == Head(phdrs)
           n == Len(p.data)
       IN <<[p EXCEPT !.p_offset = ofs,
                      !.p_filesz = n,
                      !.p_memsz = IF n > p.p_memsz THEN n ELSE p.p_memsz]>>
          \o layout(Tail(phdrs), ofs + n)

\* lines 115-123: the file header's view of the segment table
table_fields(c) ==
  IF c.phdr # <<>>
  THEN [c.ehdr EXCEPT !.e_phoff = sizeof(Elf32_Ehdr_fmt),
                      !.e_phentsize = sizeof(Elf32_Phdr_fmt),
                      !.e_phnum = Len(c.phdr)]
  ELSE [c.ehdr EXCEPT !.e_phoff = 0, !.e_phentsize = 0, !.e_phnum = 0]

\* (mutant of update_headers: the payloads start where the table starts)
update_headers_table_skipped(c) ==
  LET ehdr == table_fields(c)
  IN [ehdr |-> ehdr, phdr |-> layout(c.phdr, ehdr.e_phoff)]

\* CoreFile.update_headers (lines 113-130)
update_headers(c) ==
  LET ehdr == table_fields(c)
  IN [ehdr |-> ehdr,
      phdr |-> layout(c.phdr, ehdr.e_phoff + ehdr.e_phentsize * ehdr.e_phnum)]

\* (mutant of Elf32_Phdr_dumps: p_paddr is written before p_vaddr)
Elf32_Phdr_dumps_swapped(p) ==
  dumps(Elf32_Phdr_fields_swapped, Elf32_Phdr_fmt, p)

\* Elf32_Phdr.dumps (lines 25-32 with the fields of lines 68-76)
Elf32_Phdr_dumps(p) == dumps(Elf32_Phdr_fields, Elf32_Phdr_fmt, p)

RECURSIVE write_phdrs(_)
write_phdrs(phdrs) ==
  IF phdrs = <<>> THEN <<>>
  ELSE Elf32_Phdr_dumps(Head(phdrs)) \o write_phdrs(Tail(phdrs))

RECURSIVE write_data(_)
write_data(phdrs) ==
  IF phdrs = <<>> THEN <<>> ELSE Head(phdrs).data \o write_data(Tail(phdrs))

\* CoreFile.dump (lines 132-139): the container after the call and the bytes
\* written to f
dump(c) ==
  LET u == update_headers(c)
  IN [cf |-> u,
      out |-> dumps(Elf32_Ehdr_fields, Elf32_Ehdr_fmt, u.ehdr)
              \o write_phdrs(u.phdr) \o write_data(u.phdr)]

\* CoreFile.set_type, CoreFile.set_machine (lines 141-147)
set_type(c, t) == [c EXCEPT !.ehdr.e_type = t]
set_machine(c, m) == [c EXCEPT !.ehdr.e_machine = m]

\* CoreFile.add_program (lines 149-156)
add_program(c, p_type, vaddr, data) ==
  [c EXCEPT !.phdr =
     Append(@, Phdr([zeroed(Elf32_Phdr_fields, Elf32_Phdr_fmt) EXCEPT
                       !.p_type = p_type,
                       !.p_vaddr = vaddr,
                       !.p_filesz = Len(data),
                       !.p_memsz = Len(data)], data))]

\* the segments the model adds: type, virtual address, payload
Programs ==
  {[p_type |-> PT_NOTE, vaddr |-> 0, data |-> <<1, 2, 3>>],
   [p_type |-> PT_LOAD, vaddr |-> 536871425, data |-> <<170>>],
   [p_type |-> PT_LOAD, vaddr |-> 513, data |-> <<>>],
   [p_type |-> PT_LOAD, vaddr |-> 134217728, data |-> <<255, 0>>]}

\* ARM_prstatus (lines 78-96)
ARM_prstatus_fields ==
  <<"si_signo", "si_code", "si_errno", "pr_cursig", "pr_pad0", "pr_sigpend",
    "pr_sighold", "pr_pid", "pr_ppid", "pr_pgrp", "pr_sid", "pr_utime",
    "pr_stime", "pr_cutime", "pr_cstime">>
ARM_prstatus_fmt ==
  <<"L", "L", "L", "H", "H", "L", "L", "L", "L", "L", "L", "Q", "Q", "Q", "Q">>

\* ARM_prstatus(): every field zero
ARM_prstatus == zeroed(ARM_prstatus_fields, ARM_prstatus_fmt)

\* n zero bytes
Zeros(n) == [j \in 1..n |-> 0]

\* note_desc (corefile.py lines 161-170) where str is a byte string, as in
\* Python 2; name and desc are byte strings
note_desc(name, type, desc) ==
  LET name0  == name \o <<0>>
      header == pack_int(Len(name0), 4) \o pack_int(Len(desc), 4)
                \o pack_int(type, 4)
      name1  == name0 \o Zeros((4 - Len(name0)) % 4)
      desc1  == desc \o Zeros((4 - Len(desc)) % 4)
  IN header \o name1 \o desc1

\* The interpreters gdb embeds.  corefile.py tells them apart (line 27).
Pythons == {2, 3}

\* note_desc under interpreter py with a str name.  In Python 3 struct.pack
\* returns bytes and line 170 adds the str name to it, which raises
\* TypeError whatever desc is.
note_desc_on(py, name, type, desc) ==
  IF py = 3 THEN [ok |-> FALSE, out |-> <<>>]
  ELSE [ok |-> TRUE, out |-> note_desc(name, type, desc)]

\* the names and descriptors note_desc is called with
NameText == <<67, 79, 82, 69, 76, 73, 78, 85, 88>>
Names == {SubSeq(NameText, 1, n) : n \in 0..MaxName}
Descs == {[j \in 1..n |-> 160 + j] : n \in 0..MaxDesc}

\* ---------------------------------------------------------------------------
\* coredump.py: the gcore command (Python 2 only: line 62 is a print
\* statement).

SIGINT == 2
SIGSEGV == 11

\* "CORE"
CORE == <<67, 79, 82, 69>>

\* struct.pack("<19L", *regs)
RECURSIVE pack_regs(_, _)
pack_regs(regs, n) ==
  IF n = 0 THEN <<>> ELSE pack_regs(regs, n - 1) \o pack_int(regs[n - 1], 4)

\* CommandGCore.invoke, lines 36-42: the note of one thread
prstatus_note(t, sig) ==
  note_desc(CORE, 1,
            dumps(ARM_prstatus_fields, ARM_prstatus_fmt,
                  [ARM_prstatus EXCEPT
                     !.pr_cursig = IF t.active THEN sig ELSE 0,
                     !.pr_pid = t.lwp])
            \o pack_regs(t.regs, 19))

\* lines 34-42: the notes of all threads, in the order of thread_cache
RECURSIVE gcore_notes(_, _)
gcore_notes(tc, sig) ==
  IF tc = <<>> THEN <<>>
  ELSE prstatus_note(Head(tc), sig) \o gcore_notes(Tail(tc), sig)

\* What inf.read_memory returns for the three regions gcore reads (128 KiB at
\* 0x20000000, 64 KiB at 0x10000000, 0x40 bytes at 0xE000ED00): each region
\* is represented by a few bytes.
Memory == [ram |-> <<32, 33, 34>>, ccmram |-> <<16, 17>>, scs |-> <<224>>]

\* 0xE000ED00 as a 32-bit word whose top bit is set; pack_int gives its
\* little-endian bytes 00 ED 00 E0
ScsBase == 0 - 536810240

\* CommandGCore.invoke (coredump.py lines 31-62).  readable is FALSE when a
\* read_memory raises: nothing is written.  Result: how the call ended and
\* the bytes of the file.
gcore_invoke(tc, sig, readable) ==
  IF ~readable THEN [end |-> "raise", core |-> <<>>]
  ELSE LET notes == gcore_notes(tc, sig)
           c1 == set_machine(set_type(CoreFile, ET_CORE), 40)
           c2 == add_program(c1, PT_NOTE, 0, notes)
           c3 == add_program(c2, PT_LOAD, 268435456, Memory.ccmram)
           c4 == add_program(c3, PT_LOAD, 536870912, Memory.ram)
           c5 == add_program(c4, PT_LOAD, ScsBase, Memory.scs)
       IN [end |-> "return", core |-> dump(c5).out]

VARIABLES
  reg_cache,     \* chibios.reg_cache: <<>> or the 19 captured registers
  thread_cache,  \* chibios.thread_cache: the ChibiThread objects, in order
  currp,         \* chibios.currp: <<>> (None) or <<record>>
  next_lwp,      \* ChibiThread.next_lwp
  cpu,           \* the target's register file: r0..r15, xpsr, msp, psp
  mem,           \* the target's memory (see above)
  halt,          \* where the target last halted: mode, pc, and whether gdb
                 \* can evaluate 'currp' in that scope
  phase,         \* "load", "stopped", "running", "exited", "hung"
  last,          \* the handler or command that ran last: how it ended, the
                 \* register writes it made and what it printed
  session,       \* the labels handed out since the last exit event, in
                 \* order: (record, label, announced)
  cpu_at_stop,   \* the register file when the last stop event captured it
  stop_end,      \* how the handler of that stop event ended
  rejected,      \* a register write was rejected since that capture
  nstops,        \* stop events so far
  nevents,       \* memory changes and rejected register writes so far
  cf,            \* a CoreFile object: its file header and program headers
  image,         \* the bytes the last dump wrote
  added,         \* the add_program calls so far
  cstep,         \* the last operation on the container
  note           \* the last call of note_desc: arguments and result

mvars == <<reg_cache, thread_cache, currp, next_lwp, cpu, mem, halt, phase,
          last, session, cpu_at_stop, stop_end, rejected, nstops, nevents>>

cvars == <<cf, image, added, cstep, note>>

vars == <<mvars, cvars>>

\* The places the target is halted at: in a thread on the process stack, in
\* a thread on the main stack, in an exception handler, at an address
\* without debug information, and in a scope where 'currp' is not visible.
Halts ==
  { [mode |-> "thread_psp", pc |-> 260,  currp |-> TRUE],
    [mode |-> "thread_msp", pc |-> 260,  currp |-> TRUE],
    [mode |-> "handler",    pc |-> 256,  currp |-> TRUE],
    [mode |-> "thread_psp", pc |-> 1024, currp |-> TRUE],
    [mode |-> "thread_psp", pc |-> 260,  currp |-> FALSE] }

\* The register file of the target halted for the n-th time: in handler mode
\* r13 is the main stack pointer; in thread mode it is the process stack
\* pointer or, while CONTROL.SPSEL is 0 (from reset until the kernel's
\* start-up code selects the process stack), the main stack pointer.
HaltedCpu(n, h) ==
  LET msp == 20000 + n
      psp == 24000 + n
  IN [r    |-> [i \in 0..15 |->
                  IF i = 13 THEN (IF h.mode = "thread_psp" THEN psp ELSE msp)
                  ELSE IF i = 15 THEN h.pc
                  ELSE 32 * n + i],
      xpsr |-> IF h.mode = "handler" THEN Xpsr.handler ELSE Xpsr.thread,
      msp  |-> msp,
      psp  |-> psp]

\* the registry of a kernel with two threads (records 1 and 2, 1 running);
\* record 3 is the list header rlist, whose context is never saved (saved
\* stack pointer 0)
BootMem ==
  [currp   |-> <<1>>,
   r_newer |-> 1,
   p_newer |-> (1 :> 2) @@ (2 :> 3) @@ (3 :> 1),
   r13     |-> (1 :> StackOf(1)) @@ (2 :> StackOf(2)) @@ (3 :> 0),
   lr      |-> [a \in Rec |-> 260],
   fxpsr   |-> [a \in Rec |-> Xpsr.thread],
   bad     |-> [a \in Rec |-> "none"]]

Idle(op) == [op |-> op, end |-> "return", writes |-> <<>>, out |-> <<>>]

Init ==
  /\ reg_cache = <<>>
  /\ thread_cache = <<>>
  /\ currp = <<>>
  /\ next_lwp = 1
  /\ halt \in Halts
  /\ cpu = HaltedCpu(0, halt)
  /\ mem = BootMem
  /\ phase = "load"
  /\ last = Idle("init")
  /\ session = <<>>
  /\ cpu_at_stop = cpu
  /\ stop_end = "return"
  /\ rejected = FALSE
  /\ nstops = 0
  /\ nevents = 0
  /\ cf = CoreFile
  /\ image = <<>>
  /\ added = <<>>
  /\ cstep = "new"
  /\ note = [made |-> FALSE, py |-> 2, name |-> <<>>, type |-> 0,
             desc |-> <<>>, ok |-> TRUE, out |-> <<>>]

Refused(writes) == \E k \in 1..Len(writes) : ~writes[k][2]

\* "[New thread '%s']" for each thread appended
Announcements(log) ==
  LET RECURSIVE pick(_)
      pick(k) == IF k > Len(log) THEN <<>>
                 ELSE IF log[k][3] THEN <<(<<"new", log[k][1]>>)>> \o pick(k + 1)
                 ELSE pick(k + 1)
  IN pick(1)

\* "Failed to set xpsr" when the xpsr write of a set_cpu_regs call is refused
XpsrMsg(writes) ==
  IF \E k \in 1..Len(writes) : writes[k] = <<XPSR, FALSE>>
  THEN <<(<<"xpsr", 0>>)>> ELSE <<>>

\* a fault is explored where a register write meets it
Faulted(fault, writes) ==
  /\ fault # 0 => nevents < MaxEvents /\ Refused(writes)
  /\ nevents' = IF fault # 0 THEN nevents + 1 ELSE nevents

\* the module state after stop_handler ran on register file c, halted at hl
RunStop(op, c, hl, fault) ==
  \E h \in {stop_handler(thread_cache, next_lwp, c, mem, hl.currp, fault)} :
     /\ Faulted(fault, h.writes)
     /\ halt' = hl
     /\ reg_cache' = h.reg_cache
     /\ thread_cache' = h.thread_cache
     /\ currp' = h.currp
     /\ next_lwp' = h.next_lwp
     /\ cpu' = h.cpu
     /\ phase' = IF h.end = "loop" THEN "hung" ELSE "stopped"
     /\ last' = [op |-> op, end |-> h.end, writes |-> h.writes,
                 out |-> Announcements(h.log) \o XpsrMsg(h.writes),
                 walk |-> h.walk]
     /\ session' = session \o h.log
     /\ cpu_at_stop' = c
     /\ stop_end' = h.end
     /\ rejected' = Refused(h.writes)

\* lines 200-204: stop_handler() when the module is loaded; what it raises is
\* swallowed
Load(fault) ==
  /\ phase = "load"
  /\ RunStop("load", cpu, halt, fault)
  /\ UNCHANGED <<mem, nstops>>
  /\ UNCHANGED cvars

\* the stop event: the target halted at hl
Stop(hl, fault) ==
  /\ phase = "running"
  /\ nstops < MaxStops
  /\ RunStop("stop", HaltedCpu(nstops + 1, hl), hl, fault)
  /\ nstops' = nstops + 1
  /\ UNCHANGED <<mem>>
  /\ UNCHANGED cvars

\* cont_handler (lines 133-138): the target is resumed, also when a new
\* inferior is started after an exit
Cont(fault) ==
  /\ phase \in {"stopped", "exited"}
  /\ \E s \in {IF reg_cache # <<>> THEN set_cpu_regs(cpu, reg_cache, fault)
               ELSE [cpu |-> cpu, ok |-> TRUE, log |-> <<>>]} :
        /\ cpu' = s.cpu
        /\ last' = [op |-> "cont", end |-> IF s.ok THEN "return" ELSE "raise",
                    writes |-> s.log, out |-> XpsrMsg(s.log)]
        /\ rejected' = (rejected \/ Refused(s.log))
        /\ Faulted(fault, s.log)
  /\ phase' = "running"
  /\ UNCHANGED <<reg_cache, thread_cache, currp, next_lwp, mem, halt, session,
                 cpu_at_stop, stop_end, nstops>>
  /\ UNCHANGED cvars

\* (mutant of Exit: the register cache survives the exit)
ExitKeepsRegCache ==
  /\ phase \in {"stopped", "running"}
  /\ currp' = <<>>
  /\ thread_cache' = <<>>
  /\ next_lwp' = 1
  /\ phase' = "exited"
  /\ last' = Idle("exit")
  /\ session' = <<>>
  /\ UNCHANGED <<reg_cache, cpu, mem, halt, cpu_at_stop, stop_end, rejected,
                 nstops, nevents>>
  /\ UNCHANGED cvars

\* exit_handler (lines 141-152)
Exit ==
  /\ phase \in {"stopped", "running"}
  /\ reg_cache' = <<>>
  /\ currp' = <<>>
  /\ thread_cache' = <<>>
  /\ next_lwp' = 1
  /\ phase' = "exited"
  /\ last' = Idle("exit")
  /\ session' = <<>>
  /\ UNCHANGED <<cpu, mem, halt, cpu_at_stop, stop_end, rejected, nstops, nevents>>
  /\ UNCHANGED cvars

\* CommandInfoThreads.invoke: one row per thread_cache entry
list_tasks(tc) == [k \in 1..Len(tc) |-> <<IF tc[k].active THEN "*" ELSE " ", tc[k].lwp>>]

\* 'info threads' prints list_tasks(thread_cache) and changes nothing
InfoThreads ==
  /\ phase \in {"stopped", "exited"}
  /\ UNCHANGED vars

\* the loop of CommandThread.invoke (lines 184-191) over tc[i..]; st carries
\* the threads, the register file, old_lwp, found and the writes made
RECURSIVE select_loop(_, _, _, _)
select_loop(st, i, arg, fault) ==
  IF i > Len(st.tc) THEN st
  ELSE IF st.tc[i].lwp = arg
  THEN LET s == set_cpu_regs(st.cpu, st.tc[i].regs, fault)
           st1 == [st EXCEPT !.tc[i].active = TRUE, !.found = TRUE,
                             !.cpu = s.cpu, !.writes = st.writes \o s.log]
       IN IF s.ok THEN select_loop(st1, i + 1, arg, fault)
          ELSE [st1 EXCEPT !.end = "raise"]
  ELSE IF st.tc[i].active
  THEN select_loop([st EXCEPT !.tc[i].active = FALSE, !.old_lwp = st.tc[i].lwp],
                   i + 1, arg, fault)
  ELSE select_loop(st, i + 1, arg, fault)

\* lines 192-196: the label is unknown; the thread whose label is old_lwp is
\* made active again
restore_active(tc, old_lwp) ==
  [k \in 1..Len(tc) |->
     IF tc[k].lwp = old_lwp THEN [tc[k] EXCEPT !.active = TRUE] ELSE tc[k]]

\* CommandThread.invoke with a label (lines 182-196)
select_thread(tc, c, arg, fault) ==
  LET st == select_loop([tc |-> tc, cpu |-> c, old_lwp |-> 0, found |-> FALSE,
                         writes |-> <<>>, end |-> "return"], 1, arg, fault)
  IN IF st.end = "raise" \/ st.found THEN st
     ELSE [st EXCEPT !.tc = restore_active(st.tc, st.old_lwp)]

\* 'thread <label>'
Thread(arg, fault) ==
  /\ phase \in {"stopped", "exited"}
  /\ \E st \in {select_thread(thread_cache, cpu, arg, fault)} :
        /\ thread_cache' = st.tc
        /\ cpu' = st.cpu
        /\ last' = [op |-> "thread", arg |-> arg, end |-> st.end,
                    writes |-> st.writes,
                    out |-> XpsrMsg(st.writes) \o
                            (IF st.end = "return" /\ ~st.found
                             THEN <<(<<"unknown", arg>>)>> ELSE <<>>)]
        /\ rejected' = (rejected \/ Refused(st.writes))
        /\ Faulted(fault, st.writes)
  /\ UNCHANGED <<reg_cache, currp, next_lwp, mem, halt, phase, session,
                 cpu_at_stop, stop_end, nstops>>
  /\ UNCHANGED cvars

\* 'thread' without a label (lines 176-180): what it prints, the label of
\* the first active thread; with none active int('') raises
current_thread(tc) ==
  LET act == {k \in 1..Len(tc) : tc[k].active}
  IN IF act = {} THEN [end |-> "raise", out |-> <<>>]
     ELSE [end |-> "return",
           out |-> <<tc[CHOOSE k \in act : \A j \in act : k <= j].lwp>>]

\* it changes nothing
ThreadCurrent ==
  /\ phase \in {"stopped", "exited"}
  /\ UNCHANGED vars

\* 'gcore' typed by the user (sig is SIGINT), or coredump.stop_handler
\* (lines 80-86) calling gcore.invoke(sig=SIGSEGV) for the stop event that
\* chibios.stop_handler has just handled
Gcore(sig, readable) ==
  /\ phase \in {"stopped", "exited"}
  /\ sig = SIGSEGV => (phase = "stopped" /\ last.op = "stop")
  /\ \E g \in {gcore_invoke(thread_cache, sig, readable)} :
        last' = [op |-> "gcore", sig |-> sig, end |-> g.end, writes |-> <<>>,
                 out |-> <<>>, core |-> g.core]
  /\ UNCHANGED <<reg_cache, thread_cache, currp, next_lwp, cpu, mem, halt,
                 phase, session, cpu_at_stop, stop_end, rejected, nstops,
                 nevents>>
  /\ UNCHANGED cvars

\* ----------------------------------------------------- the running target

EnvDone(m) ==
  /\ phase = "running"
  /\ nevents < MaxEvents
  /\ m # mem
  /\ mem' = m
  /\ nevents' = nevents + 1
  /\ last' = Idle("env")
  /\ UNCHANGED <<reg_cache, thread_cache, currp, next_lwp, cpu, halt, phase,
                 session, cpu_at_stop, stop_end, rejected, nstops>>
  /\ UNCHANGED cvars

\* the kernel switches threads
EnvCurrp(a) == EnvDone([mem EXCEPT !.currp = <<a>>])

\* the registry changes: threads are created and exit
EnvRoot(a) == EnvDone([mem EXCEPT !.r_newer = a])

EnvLink(a, b) == EnvDone([mem EXCEPT !.p_newer[a] = b])

\* a context is saved into a record, or the record is initialised
EnvSp(a) == EnvDone([mem EXCEPT !.r13[a] = IF mem.r13[a] = 0 THEN StackOf(a) ELSE 0])

\* a thread is switched out from another place
EnvLr(a, pc) == EnvDone([mem EXCEPT !.lr[a] = pc])

EnvFxpsr(a) ==
  EnvDone([mem EXCEPT !.fxpsr[a] = IF mem.fxpsr[a] = Xpsr.thread
                                   THEN Xpsr.handler ELSE Xpsr.thread])

EnvBad(a, k) == EnvDone([mem EXCEPT !.bad[a] = k])

Next ==
  \/ \E f \in Faults : Load(f)
  \/ \E hl \in Halts, f \in Faults : Stop(hl, f)
  \/ \E f \in Faults : Cont(f)
  \/ Exit
  \/ InfoThreads
  \/ \E arg \in 1..next_lwp, f \in Faults : Thread(arg, f)
  \/ ThreadCurrent
  \/ \E a \in Rec : EnvCurrp(a)
  \/ \E a \in Rec : EnvRoot(a)
  \/ \E a \in Rec, b \in Rec : EnvLink(a, b)
  \/ \E a \in Rec : EnvSp(a)
  \/ \E a \in Rec, pc \in PCs : EnvLr(a, pc)
  \/ \E a \in Rec : EnvFxpsr(a)
  \/ \E a \in Rec, k \in {"none", "ctx", "frame"} : EnvBad(a, k)

Spec == Init /\ [][Next]_vars

\* The debugger session with the gcore command: the events and commands that
\* decide which tasks are in the collection and which are marked active,
\* and the dumps taken in between.
DumpNext ==
  \/ \E f \in Faults : Load(f)
  \/ \E hl \in Halts, f \in Faults : Stop(hl, f)
  \/ \E f \in Faults : Cont(f)
  \/ Exit
  \/ \E arg \in 1..next_lwp, f \in Faults : Thread(arg, f)
  \/ \E a \in Rec : EnvCurrp(a)
  \/ \E sig \in {SIGINT, SIGSEGV}, readable \in BOOLEAN : Gcore(sig, readable)

DumpSpec == Init /\ [][DumpNext]_vars

\* ---------------------------------------------------------------------------
\* The container: built, written, read back.

CfStep(op) ==
  /\ cstep' = op
  /\ UNCHANGED <<mvars, note>>

CfAddProgram(p) ==
  /\ Len(cf.phdr) < MaxSegs
  /\ cf' = add_program(cf, p.p_type, p.vaddr, p.data)
  /\ added' = Append(added, p)
  /\ UNCHANGED image
  /\ CfStep("add_program")

CfSetType(t) ==
  /\ cf' = set_type(cf, t)
  /\ UNCHANGED <<image, added>>
  /\ CfStep("set_type")

CfSetMachine(m) ==
  /\ cf' = set_machine(cf, m)
  /\ UNCHANGED <<image, added>>
  /\ CfStep("set_machine")

CfDump ==
  /\ \E d \in {dump(cf)} :
        /\ cf' = d.cf
        /\ image' = d.out
  /\ UNCHANGED added
  /\ CfStep("dump")

\* CoreFile(image) on the bytes the last step wrote; the container the model
\* goes on with is the one read back
CfParse ==
  /\ cstep = "dump"
  /\ \E r \in {CoreFile_from(image)} :
        /\ r.ok
        /\ cf' = r.cf
  /\ UNCHANGED <<image, added>>
  /\ CfStep("parse")

CoreNext ==
  \/ \E p \in Programs : CfAddProgram(p)
  \/ \E t \in {ET_CORE, 2 * 1} : CfSetType(t)
  \/ \E m \in {40} : CfSetMachine(m)
  \/ CfDump
  \/ CfParse

CoreSpec == Init /\ [][CoreNext]_vars

\* ---------------------------------------------------------------------------
\* note_desc called on its own.

NoteDesc(py, name, type, desc) ==
  /\ \E r \in {note_desc_on(py, name, type, desc)} :
        note' = [made |-> TRUE, py |-> py, name |-> name, type |-> type,
                 desc |-> desc, ok |-> r.ok, out |-> r.out]
  /\ UNCHANGED <<mvars, cf, image, added, cstep>>

NoteNext ==
  \E py \in Pythons, name \in Names, type \in {1, 3}, desc \in Descs :
     NoteDesc(py, name, type, desc)

NoteSpec == Init /\ [][NoteNext]_vars

\* ----------------------------------------------------------------- claims

\* the handler of a stop event (or of the module load) ran to its end
StopReturned == last.op \in {"load", "stop"} /\ last.end = "return"

\* the entries of session that were announced as new threads
Announced == {k \in 1..Len(session) : session[k][3]}

\* C1: within one debug session every task identity is announced as a new
\* thread at most once, also across stop events at which 'currp' cannot be
\* read.  (The claim as stated; the code announces a task again.)
CxC1 ==
  \A i \in Announced, j \in Announced :
     session[i][1] = session[j][1] => i = j

\* C2: within one debug session the labels of newly observed tasks are
\* strictly increasing, no label goes to two tasks, and the label of a task
\* never changes.  (The claim as stated; a task announced again has a new
\* label.)
CxC2 ==
  \A i \in Announced, j \in Announced :
     /\ i < j => session[i][2] < session[j][2]
     /\ session[i][2] = session[j][2] => session[i][1] = session[j][1]
     /\ session[i][1] = session[j][1] => session[i][2] = session[j][2]

\* C3: set_cpu_regs(get_cpu_regs()), as a stop event that runs to its end
\* performs it, leaves r0-r15, xpsr, msp and psp unchanged.  (The claim as
\* stated; halted in thread mode on the main stack, psp is overwritten.)
CxC3 ==
  (StopReturned /\ last.writes # <<>>) => cpu = cpu_at_stop

\* C4: when the target is resumed after a stop event and any thread
\* selections, the register file with msp and psp is what the stop event
\* captured.  (The claim, in the cases where the handler of the stop event
\* ran to its end, no register write was rejected and the target was not
\* halted in thread mode on the main stack, the case of C3.)
CxC4 ==
  (last.op = "cont" /\ reg_cache # <<>> /\ stop_end = "return" /\ ~rejected
     /\ halt.mode # "thread_msp")
  => cpu = cpu_at_stop

\* C5: after a stop event no task whose saved stack pointer reads as zero is
\* in the task collection that 'info threads' lists.  (The claim as stated.)
CxC5 ==
  phase = "stopped" =>
    \A k \in 1..Len(thread_cache) : mem.r13[thread_cache[k].tp] # 0

\* the function gdb resolves the saved lr of record a to, None if it raises
ResumeFunction(a) ==
  WalkBlocks(block_for_pc(SavedLr(mem, mem.r13[a]))).function

\* the threads of the collection that are not running and resume in the
\* interrupt-return trampoline
Preempted ==
  {k \in 1..Len(thread_cache) :
     /\ <<thread_cache[k].tp>> # currp
     /\ ResumeFunction(thread_cache[k].tp) = ISR}

\* C8: after a refresh, an inactive task that resumes in _port_switch_from_isr
\* has r0, r1, r2, r3, r12, lr, pc, xpsr equal to the 8 words on its stack at
\* the reconstructed stack pointer, in that order, and its stack pointer is
\* that address plus 0x68.
ThC8 ==
  StopReturned =>
    \A k \in Preempted :
       LET regs == thread_cache[k].regs
           base == mem.r13[thread_cache[k].tp] + CtxSize
           word == ReadFrame(mem, base)
       IN /\ <<regs[0], regs[1], regs[2], regs[3], regs[12], regs[14],
               regs[15], regs[16]>>
             = <<word[0], word[1], word[2], word[3], word[4], word[5],
                 word[6], word[7]>>
          /\ regs[13] = base + 104

WitC8 ==
  /\ StopReturned
  /\ \E k \in Preempted :
        /\ ~thread_cache[k].active
        /\ thread_cache[k].regs[16] = Xpsr.thread
        /\ thread_cache[k].regs[0] # reg_cache[0]

\* C9: after a stop event that completes, the task currp points to is
\* marked active and its registers are, element for element, the registers
\* captured from the CPU at that stop.
ThC9 ==
  StopReturned =>
    \A k \in 1..Len(thread_cache) :
       <<thread_cache[k].tp>> = currp =>
         /\ thread_cache[k].active
         /\ thread_cache[k].regs = reg_cache
         /\ \A i \in 0..15 : thread_cache[k].regs[i] = cpu_at_stop.r[i]
         /\ thread_cache[k].regs[16] = cpu_at_stop.xpsr

WitC9 ==
  /\ last.op = "stop"
  /\ last.end = "return"
  /\ nstops = 2
  /\ \E k \in 1..Len(thread_cache) :
        <<thread_cache[k].tp>> = currp /\ thread_cache[k].lwp = 2

\* C10: after an exit event the register cache and the task collection are
\* empty, currp is unset and the label counter is 1 again; a cont event
\* after an exit and before the next stop writes no register of the target.
ThC10 ==
  [][/\ phase' = "exited" =>
          /\ reg_cache' = <<>>
          /\ thread_cache' = <<>>
          /\ currp' = <<>>
          /\ next_lwp' = 1
     /\ (phase = "exited" /\ last'.op = "cont") =>
          /\ last'.writes = <<>>
          /\ cpu' = cpu]_vars

WitC10 ==
  /\ last.op = "cont"
  /\ reg_cache = <<>>
  /\ nstops > 0
  /\ cpu = cpu_at_stop

\* fields of the written image, decoded at their ELF32 byte offsets
FileWord(ofs) == unpack_int(Slice(image, ofs, ofs + 4))
FileHalf(ofs) == unpack_int(Slice(image, ofs, ofs + 2))
FilePhoff == FileWord(28)
FilePhnum == FileHalf(44)
\* field number f (from 0) of descriptor number i (from 1) of the image
FileDesc(i, f) == FileWord(52 + 32 * (i - 1) + 4 * f)

\* C6 as stated: for N >= 0 segments the written e_phoff is the file-header
\* size, and for N >= 1 the first segment's p_offset is header size + N *
\* descriptor size.
CxC6 ==
  cstep = "dump" =>
    /\ FilePhoff = 52
    /\ Len(cf.phdr) >= 1 => FileDesc(1, 1) = 52 + Len(cf.phdr) * 32

\* C6, amended: for N >= 1 segments the written e_phoff is the file-header
\* size and the first segment's p_offset is header size + N * descriptor
\* size; for N = 0 the written e_phoff is 0.
ThC6 ==
  cstep = "dump" =>
    /\ Len(cf.phdr) >= 1 =>
         /\ FilePhoff = 52
         /\ FileDesc(1, 1) = 52 + Len(cf.phdr) * 32
    /\ Len(cf.phdr) = 0 => FilePhoff = 0

WitC6 ==
  /\ cstep = "dump"
  /\ Len(cf.phdr) = 2
  /\ FilePhnum = 2
  /\ FileDesc(1, 4) > 0

\* C7: parsing the bytes a dump wrote yields the segments that were added,
\* in order, each with its virtual address and payload length, and the bytes
\* at the recorded file offset are the payload; every descriptor has p_memsz
\* >= p_filesz = payload length, and the payloads lie one after the other,
\* without overlap, after the descriptor table.
ThC7 ==
  cstep = "parse" =>
    /\ Len(cf.phdr) = Len(added)
    /\ \A i \in 1..Len(cf.phdr) :
         LET p == cf.phdr[i]
         IN /\ i <= Len(added)
            /\ p.p_vaddr = added[i].vaddr
            /\ Len(p.data) = Len(added[i].data)
            /\ p.p_filesz = Len(added[i].data)
            /\ p.p_memsz >= p.p_filesz
            /\ SubSeq(image, p.p_offset + 1, p.p_offset + p.p_filesz)
                 = added[i].data
            /\ p.p_offset = IF i = 1 THEN 52 + 32 * Len(cf.phdr)
                            ELSE cf.phdr[i - 1].p_offset
                                 + cf.phdr[i - 1].p_filesz
            /\ p.p_offset + p.p_filesz <= Len(image)

WitC7 ==
  /\ cstep = "parse"
  /\ Len(added) = 2
  /\ added[1].data # <<>>
  /\ added[2].data # <<>>
  /\ added[1].vaddr # added[2].vaddr
  /\ cf.phdr[2].data = added[2].data

\* the labels of the tasks in the collection
Labels(tc) == {tc[k].lwp : k \in 1..Len(tc)}

\* the tasks of the collection marked active
Active(tc) == {k \in 1..Len(tc) : tc[k].active}

\* a step of 'thread <label>' with a label no task of the collection has
ThreadUnknown ==
  /\ last'.op = "thread"
  /\ last' # last
  /\ last'.arg \notin Labels(thread_cache)

\* C11: 'thread <label>' with a label that matches no known task reports the
\* error, writes no register of the target, and leaves every task's active
\* flag as it was before the command.
CxC11 ==
  [][ThreadUnknown =>
       /\ last'.out = <<(<<"unknown", last'.arg>>)>>
       /\ last'.writes = <<>>
       /\ cpu' = cpu
       /\ Len(thread_cache') = Len(thread_cache)
       /\ Active(thread_cache') = Active(thread_cache)]_vars

\* C12: in every reachable state at most one task of the collection is
\* marked active.
CxC12 == Cardinality(Active(thread_cache)) <= 1

\* fields of a file image b, decoded at byte offsets
Word(b, ofs) == unpack_int(SubSeq(b, ofs + 1, ofs + 4))
Half(b, ofs) == unpack_int(SubSeq(b, ofs + 1, ofs + 2))
Pad4(n) == ((n + 3) \div 4) * 4

\* the program headers of image b whose type is PT_NOTE (4)
NoteSegs(b) ==
  {i \in 1..Half(b, 44) : Word(b, Word(b, 28) + 32 * (i - 1)) = 4}

\* the notes found in b from offset ofs up to offset end, one after the
\* other: pr_pid and pr_cursig of each
RECURSIVE ReadNotes(_, _, _)
ReadNotes(b, ofs, end) ==
  IF ofs >= end THEN <<>>
  ELSE LET desc == ofs + 12 + Pad4(Word(b, ofs))
       IN <<[pid |-> Word(b, desc + 24), sig |-> Half(b, desc + 12)]>>
          \o ReadNotes(b, desc + Pad4(Word(b, ofs + 4)), end)

\* the notes of the first note segment of b
NotesOf(b) ==
  LET i == CHOOSE j \in NoteSegs(b) : \A k \in NoteSegs(b) : j <= k
      ph == Word(b, 28) + 32 * (i - 1)
  IN ReadNotes(b, Word(b, ph + 4), Word(b, ph + 4) + Word(b, ph + 16))

Dumped == last.op = "gcore" /\ last.end = "return"

\* C13: a snapshot written by gcore has exactly one note segment with one
\* note per task of the collection, in collection order, each with the
\* task's label as pid; the note of the active task carries the triggering
\* signal and every other note signal 0, so at most one note carries a
\* signal.
CxC13 ==
  Dumped =>
    /\ Cardinality(NoteSegs(last.core)) = 1
    /\ LET notes == NotesOf(last.core)
       IN /\ Len(notes) = Len(thread_cache)
          /\ \A k \in 1..Len(notes) :
               /\ k <= Len(thread_cache)
               /\ notes[k].pid = thread_cache[k].lwp
               /\ notes[k].sig = IF thread_cache[k].active THEN last.sig ELSE 0
          /\ Cardinality({k \in 1..Len(notes) : notes[k].sig # 0}) <= 1

\* C14: note_desc(name, type, desc) returns a value whose length is a
\* multiple of 4, whose name-length field is len(name) + 1, whose
\* descriptor-length field is the unpadded len(desc), and in which the name
\* and the descriptor each start on a 4-byte boundary; note_desc("CORE", 1,
\* empty) has name-length field 5.
CxC14 ==
  note.made =>
    /\ note.ok
    /\ Len(note.out) % 4 = 0
    /\ Word(note.out, 0) = Len(note.name) + 1
    /\ Word(note.out, 4) = Len(note.desc)
    /\ Word(note.out, 8) = note.type
    /\ SubSeq(note.out, 13, 12 + Len(note.name) + 1) = note.name \o <<0>>
    /\ \E d \in 12..Len(note.out) :
         /\ d % 4 = 0
         /\ d >= 12 + Len(note.name) + 1
         /\ d < 12 + Len(note.name) + 1 + 4
         /\ SubSeq(note.out, d + 1, d + Len(note.desc)) = note.desc
         /\ Len(note.out) - (d + Len(note.desc)) \in 0..3
    /\ (note.name = <<67, 79, 82, 69>> /\ note.type = 1 /\ note.desc = <<>>)
         => Word(note.out, 0) = 5

\* refreshing task t reads target memory that cannot be read: its saved
\* context, or the exception frame above it when it resumes in the trampoline
ReadFails(t, m, cp) ==
  /\ <<t.tp>> # cp
  /\ \/ ~CtxReadable(m, m.r13[t.tp])
     \/ /\ WalkBlocks(block_for_pc(SavedLr(m, m.r13[t.tp]))).function = ISR
        /\ ~FrameReadable(m, m.r13[t.tp] + CtxSize)

\* a stop event is handled, the registry walk ends, and the memory of a
\* known task cannot be read
StopWithReadFailure ==
  /\ nstops' = nstops + 1
  /\ halt'.currp
  /\ last'.end # "loop"
  /\ \E j \in 1..Len(thread_cache) : ReadFails(thread_cache[j], mem', currp')

\* C15: when a target-memory read fails while one task is refreshed during a
\* stop event, every other known task is still refreshed from the current
\* capture, the tasks new at this stop are still added, and the captured
\* registers are still written back to the target.
CxC15 ==
  [][StopWithReadFailure =>
       /\ Len(thread_cache') >= Len(thread_cache)
       /\ \A k \in 1..Len(thread_cache) :
            LET u == update(thread_cache[k], reg_cache', currp', mem')
            IN (u.ok /\ k <= Len(thread_cache')) => thread_cache'[k] = u.t
       /\ LET list == walk_registry(mem', <<mem'.r_newer>>).list
          IN \A i \in 1..Len(list) :
               new_thread(list[i], 0, reg_cache', currp', mem').ok
                 => \E k \in 1..Len(thread_cache') :
                       thread_cache'[k].tp = list[i]
       /\ last'.writes # <<>>]_vars

\* the register list the last handler or command gave to set_cpu_regs
WrittenRegs ==
  IF last.op = "thread"
  THEN thread_cache[CHOOSE k \in 1..Len(thread_cache) :
                      thread_cache[k].lwp = last.arg].regs
  ELSE reg_cache

\* C16: in set_cpu_regs, whether the write of xpsr succeeds or fails, r0-r15
\* have all been written before it and the stack-pointer alias ($msp when
\* regs[16] & 0xff is non-zero, else $psp) is written after it.
ThC16 ==
  \A k \in 1..Len(last.writes) :
     last.writes[k][1] = 16 =>
       /\ k = 17
       /\ \A i \in 1..16 : last.writes[i] = <<i - 1, TRUE>>
       /\ Len(last.writes) = 18
       /\ last.writes[18][1] = IF WrittenRegs[16] % 256 # 0 THEN 17 ELSE 18

WitC16 ==
  /\ Len(last.writes) = 18
  /\ last.writes[17] = <<16, FALSE>>
  /\ last.writes[18] = <<18, TRUE>>
  /\ last.op = "thread"

\* a stop event (or the call at load) has been handled where 'currp' can be
\* evaluated, the registry walk ended, and all target memory can be read
StopHandled ==
  /\ last.op \in {"load", "stop"}
  /\ halt.currp
  /\ last.end # "loop"
  /\ \A a \in Rec : mem.bad[a] = "none"

\* the program counter the refresh gives record a before any unwind
PcOf(a) == IF <<a>> = currp THEN halt.pc ELSE SavedLr(mem, mem.r13[a])

\* the records the handled stop event has to refresh or construct whose
\* program counter lies in no block, or in blocks without a named function
Unsymbolized ==
  LET list == walk_registry(mem, <<mem.r_newer>>).list
  IN {a \in {list[i] : i \in 1..Len(list)}
           \cup {thread_cache[k].tp : k \in 1..Len(thread_cache)} :
        ~WalkBlocks(block_for_pc(PcOf(a))).ok}

\* C17: frame resolution for a program counter in no symbolized scope, or
\* with no named function in its enclosing scopes, does not fail: the task
\* gets a placeholder frame description and the rest of the stop event's
\* work is carried out.
CxC17 ==
  (StopHandled /\ Unsymbolized # {}) =>
    /\ last.writes # <<>>
    /\ \A a \in Unsymbolized :
         \E k \in 1..Len(thread_cache) :
            /\ thread_cache[k].tp = a
            /\ thread_cache[k].frame_str # <<>>
            /\ thread_cache[k].frame_str[1] = PcOf(a)

\* the record reached from the root pointer by following n links
RECURSIVE Nth(_)
Nth(n) == IF n = 0 THEN mem.r_newer ELSE mem.p_newer[Nth(n - 1)]

\* the positions along the links at which the traversal is to stop: the
\* link has returned to the first record, or the record's saved stack
\* pointer is zero
StopsAt ==
  {n \in 0..Cardinality(Rec) :
     (n > 0 /\ Nth(n) = mem.r_newer) \/ mem.r13[Nth(n)] = 0}

\* the registry walk of the last stop event was carried out
Walked == last.op \in {"load", "stop"} /\ halt.currp

\* C18: the registry traversal terminates for every task list whose links
\* form a closed ring through the first record or that contains a record
\* with zero saved stack pointer; it stops at the first such record, that
\* record is not part of the result, and no record is visited twice.
CxC18 ==
  (Walked /\ StopsAt # {}) =>
    LET n == CHOOSE i \in StopsAt : \A j \in StopsAt : i <= j
    IN /\ last.end # "loop"
       /\ Len(last.walk) = n
       /\ \A i \in 1..Len(last.walk) : last.walk[i] = Nth(i - 1)
       /\ \A i \in 1..Len(last.walk), j \in 1..Len(last.walk) :
            last.walk[i] = last.walk[j] => i = j
       /\ mem.r13[Nth(n)] = 0 =>
            \A i \in 1..Len(last.walk) : last.walk[i] # Nth(n)

\* the threads of the collection that are not running and resume in a
\* function other than the interrupt-return trampoline
Switched ==
  {k \in 1..Len(thread_cache) :
     /\ <<thread_cache[k].tp>> # currp
     /\ ResumeFunction(thread_cache[k].tp) \notin {ISR, None}}

\* what C19 says of task k, its stack pointer being the saved stack pointer
\* plus size
Reconstructed(k, size) ==
  LET regs == thread_cache[k].regs
      sp   == mem.r13[thread_cache[k].tp]
  IN /\ regs[13] = sp + size
     /\ regs[15] = SavedLr(mem, sp)
     /\ \A i \in 4..11 : regs[i] = SavedReg(mem, sp, i)
     /\ \A i \in {0, 1, 2, 3, 12, 14} : regs[i] = cpu_at_stop.r[i]
     /\ regs[16] = cpu_at_stop.xpsr

\* C19 as stated: after a refresh, an inactive task that does not resume in
\* the trampoline has stack pointer = saved stack pointer + one machine
\* word, pc = the saved lr, r4-r11 = the saved values, and r0-r3, r12, lr,
\* xpsr as captured from the CPU at this stop.
CxC19 == StopReturned => \A k \in Switched : Reconstructed(k, 4)

\* C19, amended: the stack pointer is the saved stack pointer plus the size
\* of the saved context structure (36 bytes for r4-r11 and lr); the rest as
\* stated.
ThC19 == StopReturned => \A k \in Switched : Reconstructed(k, 36)

WitC19 ==
  /\ StopReturned
  /\ nstops > 0
  /\ \E k \in Switched :
        /\ ~thread_cache[k].active
        /\ thread_cache[k].regs[4] # reg_cache[4]
        /\ thread_cache[k].regs[0] = reg_cache[0]

\* the identities (control-record addresses) of the collection
Known(tc) == {tc[k].tp : k \in 1..Len(tc)}

\* no entry of the sequence occurs twice
NoRepeat(q) == \A j, k \in 1..Len(q) : q[j] = q[k] => j = k

\* the traversed list of the last stop event (empty where the traversal was
\* not made or did not terminate)
Traversed == IF last.op \in {"load", "stop"} THEN last.walk ELSE <<>>

\* a step that keeps every task of the collection in its place
Retained ==
  /\ Len(thread_cache') >= Len(thread_cache)
  /\ \A k \in 1..Len(thread_cache) : thread_cache'[k].tp = thread_cache[k].tp

====
